---- MODULE Spec2Model ----
(***************************************************************************)
(* State-machine model of the interrupt-driven data logger                 *)
(* (src/DataLogger.ino, lines 1-210): a 10 Hz timer interrupt raises a     *)
(* flag, the main loop polls it and runs one acquire / derive / persist /  *)
(* render cycle.                                                           *)
(*                                                                         *)
(* Number representation.  The firmware computes with floats; the model    *)
(* computes exactly, in fixed point:                                       *)
(*   - shuntvoltage, busvoltage, loadvoltage, current_mA, power_mW and the *)
(*     old* display caches hold thousandths of the source unit             *)
(*     (5.020 V is 5020, 100 mA is 100000);                                *)
(*   - energy_mWh and oldegy hold multiples of 1/3600000000 mWh, i.e.      *)
(*     (thousandths of a mW) x ms, the unit in which power/36000.0 is      *)
(*     exact: p/1000 mW / 36000 = p * 100 / 3600000000 mWh.                *)
(* Rounding of the 32-bit float arithmetic is not modelled.                *)
(*                                                                         *)
(* The main loop is cut at every statement a timer interrupt can preempt;  *)
(* pc names the statement about to execute.                                *)
(***************************************************************************)
EXTENDS Integers, Sequences, FiniteSets, TLC

(* ------------------------------ bounds --------------------------------- *)
\* ticks allowed in the free-running specification
MaxTicks == 4
\* ticks allowed in the paced specification (every cycle shorter than a period)
MaxPacedTicks == 21
\* ticks allowed in the specification with device faults
MaxFaultTicks == 3
\* ticks allowed in the specification with a fair main program
MaxLiveTicks == 2
\* real time in ms covered by the specification of the polled variants
MaxPollMs == 300

(* ------------------------- program constants --------------------------- *)
\* ISR: elapsed += 100 (the 10 Hz period in ms)
TimerPeriodMs == 100
\* ina219values: power_mW / 36000.0, i.e. power * 100 ms / 3600000 ms/h
IntegrationMs == 100
\* writeFile: if(cycles >= 9)
SyncThreshold == 9
\* writeFile: cycles %= 10
SyncEvery == 10
\* uint8_t cycles
ByteRange == 256
\* fixed-point scale of the modelled floats
Milli == 1000

\* writeFile: char buf[32]
BufSize == 32
\* writeFile: char voltbuf[8], curbuf[8]
FieldBufSize == 8
\* writeFile: dtostrf(loadvoltage, 6, 3, voltbuf)
LogWidth == 6
LogPrec == 3

(* values the INA219 registers can deliver, in thousandths *)
ShuntValues == {0, 20000}
BusValues == {5000}
CurrentValues == {-100000, 0, 100000}
\* the single operating point used by the paced specification
PacedShunt == {20000}
PacedCurrent == {100000}
\* the operating points used by the specification with device faults
FaultShunt == {20000}
FaultCurrent == {0, 100000}
\* inputs of the formatting specification: counter values (4 bytes, low
\* first) around 0, 2^31 and 2^32, and measurements of every width
FmtCounters ==
    {<<a, b, c, d>> : a \in {0, 52, 100, 252}, b \in {0, 255}, c \in {0, 255},
                      d \in {0, 127, 128, 255}}
FmtVolts == {-5020, 0, 5020, 12345}
FmtCurrents == {-99999, 0, 100000, 1000000}

\* setup: the text "Time,Voltage,Current\n"
Header ==
    <<"T", "i", "m", "e", ",", "V", "o", "l", "t", "a", "g", "e", ",",
      "C", "u", "r", "r", "e", "n", "t", "\n">>
Blank == <<>>
DisplayRows == {0, 2, 4, 6}
\* a line whose text was damaged by a write past the end of a buffer
Garbled == <<"?">>
\* no value rendered yet
NoValue == <<>>

VARIABLES
    pc,            \* statement of setup()/loop() about to execute
    triggered,     \* volatile boolean triggered
    elapsed,       \* volatile unsigned long elapsed: its 4 bytes, low first
    shuntvoltage, busvoltage, current_mA, loadvoltage, power_mW, energy_mWh,
    oldcurr, oldvolt, oldpow, oldegy,
    cycles,        \* uint8_t cycles
    buf,           \* writeFile's formatted line, a sequence of characters
    stamp,         \* the bytes of elapsed loaded for sprintf, low first
    rd,            \* indices of the bytes of elapsed still to be loaded
    sensorActive,  \* INA219 power state (powerSave(false) = active)
    fileOpen,      \* measurFile is open
    fileData,      \* lines appended to MEAS.csv (SdFat cache + medium)
    syncedLen,     \* how many of them are on the medium
    cardPresent,   \* a card is in the reader
    screen,        \* display row -> <<value, unit>> last printed
    \* history variables (not program state)
    ticksFired,    \* timer interrupts served so far
    cyclesStarted, \* times loop() entered the if-body
    cyclesDone,    \* times loop() left the if-body
    ticksAtStart,  \* ticksFired when the latest cycle started
    writesDone,    \* completed writeFile() calls
    syncs,         \* physical per-cycle flushes performed by writeFile()
    syncedThisWrite, \* the latest writeFile() invoked sync()
    lastSampleMs,  \* wall-clock time of the previous derive step
    energyExact,   \* running sum of power * actual dt
    acquires,      \* completed reads of the three sensor values
    derives,       \* executions of the derive statements (lines 176-182)
    opens,         \* calls of measurFile.open (each creates/truncates)
    writesWithCard, \* measurFile.write calls made with a card in the reader
    drawn,         \* display rows written during the current cycle
    failedRows,    \* display rows whose latest write failed
    rendered,      \* display row -> <<value>> of the latest render pass
    \* the polled-timer variants (src/DataLogger/DataLogger.ino)
    millisNow,     \* the value millis() returns: 4 bytes, low first
    previousMillis, \* unsigned long previousMillis: 4 bytes, low first
    sinceStart,    \* real time in ms since the latest polled cycle started
    pollClock,     \* real time in ms since the polled variant was observed
    pollCycles     \* polled cycles started

isrVars == <<triggered, elapsed>>
sampleVars == <<shuntvoltage, busvoltage, current_mA>>
derivedVars == <<loadvoltage, power_mW, energy_mWh>>
cacheVars == <<oldcurr, oldvolt, oldpow, oldegy>>
logVars == <<cycles, buf, stamp, rd>>
fileVars == <<fileOpen, fileData, syncedLen, cardPresent>>
envVars == <<sensorActive, fileVars, screen>>
tickHist == <<ticksFired, cyclesStarted, cyclesDone, ticksAtStart>>
logHist == <<writesDone, syncs, syncedThisWrite>>
energyHist == <<lastSampleMs, energyExact, acquires, derives>>
fileHist == <<opens, writesWithCard>>
dispHist == <<drawn, failedRows, rendered>>
histVars == <<tickHist, logHist, energyHist, fileHist, dispHist>>
\* every variable of the program other than the trigger flag
nonFlagVars == <<elapsed, sampleVars, derivedVars, cacheVars, logVars>>
pollVars == <<millisNow, previousMillis, sinceStart, pollClock, pollCycles>>
\* the variables of the interrupt-driven program and their history
progVars == <<pc, isrVars, sampleVars, derivedVars, cacheVars, logVars,
              envVars, histVars>>
vars == <<progVars, pollVars>>

\* wall-clock time in ms: the timer fires once per period
WallMs == ticksFired * TimerPeriodMs

(* ------------------------------- Init ---------------------------------- *)
\* the globals' initialisers (lines 6-29), before setup() runs
Init ==
    /\ pc = "setup"
    /\ triggered = FALSE
    /\ elapsed = <<0, 0, 0, 0>>
    /\ shuntvoltage = 0 /\ busvoltage = 0 /\ current_mA = 0
    /\ loadvoltage = 0 /\ power_mW = 0 /\ energy_mWh = 0
    /\ oldcurr = 0 /\ oldvolt = 0 /\ oldpow = 0 /\ oldegy = 0
    /\ cycles = 0
    /\ buf = Blank
    /\ stamp = <<0, 0, 0, 0>> /\ rd = <<>>
    /\ sensorActive = FALSE
    /\ fileOpen = FALSE
    /\ fileData = <<>>
    /\ syncedLen = 0
    /\ cardPresent = FALSE
    /\ screen = [r \in DisplayRows |-> Blank]
    /\ ticksFired = 0 /\ cyclesStarted = 0 /\ cyclesDone = 0
    /\ ticksAtStart = 0 /\ writesDone = 0 /\ syncs = 0
    /\ syncedThisWrite = FALSE
    /\ lastSampleMs = 0 /\ energyExact = 0
    /\ acquires = 0 /\ derives = 0
    /\ opens = 0 /\ writesWithCard = 0
    /\ drawn = {} /\ failedRows = {}
    /\ rendered = [r \in DisplayRows |-> NoValue]
    /\ millisNow = <<0, 0, 0, 0>> /\ previousMillis = <<0, 0, 0, 0>>
    /\ sinceStart = 0 /\ pollClock = 0 /\ pollCycles = 0

(* ------------------------------ setup() -------------------------------- *)
\* lines 36-78: the INA219 starts (active), the card is initialised and the
\* file created/truncated (O_TRUNC), the header printed and synced, the
\* display cleared, the timer armed.  With no card in the reader sd.begin and
\* measurFile.open fail and the print and sync have no effect.
Setup ==
    /\ pc = "setup"
    /\ \E present \in BOOLEAN :
          /\ cardPresent' = present
          /\ fileOpen' = present
          /\ fileData' = IF present THEN <<Header>> ELSE <<>>
          /\ syncedLen' = IF present THEN 1 ELSE 0
    /\ opens' = opens + 1
    /\ sensorActive' = TRUE
    /\ screen' = [r \in DisplayRows |-> Blank]
    /\ pc' = "loop"
    /\ UNCHANGED <<isrVars, sampleVars, derivedVars, cacheVars, logVars,
                   tickHist, logHist, energyHist, writesWithCard, dispHist,
                   pollVars>>

\* a card is put in the reader while the logger runs
CardInsert ==
    /\ pc # "setup"
    /\ ~cardPresent
    /\ cardPresent' = TRUE
    /\ UNCHANGED <<pc, isrVars, sampleVars, derivedVars, cacheVars, logVars,
                   sensorActive, fileOpen, fileData, syncedLen, screen,
                   histVars, pollVars>>

(* ---------------------- ISR(TIMER1_COMPA_vect) ------------------------- *)
\* line 136: the value the handler stores in the flag
IsrFlag_Unset == triggered
IsrFlag == TRUE

\* line 7: the value of the 32-bit unsigned long held in 4 bytes
ULongValue(e) ==
    e[1] + ByteRange * (e[2] + ByteRange * (e[3] + ByteRange * e[4]))

\* 32-bit unsigned addition of a small n, byte by byte with carry; the carry
\* out of the top byte is dropped
ULongAdd(e, n) ==
    LET s1 == e[1] + n
        s2 == e[2] + (s1 \div ByteRange)
        s3 == e[3] + (s2 \div ByteRange)
        s4 == e[4] + (s3 \div ByteRange)
    IN  <<s1 % ByteRange, s2 % ByteRange, s3 % ByteRange, s4 % ByteRange>>

\* line 137: elapsed += 100
IsrElapsed(e) == ULongAdd(e, TimerPeriodMs)

\* lines 135-138, the handler's body (interrupts are disabled while it runs)
ISR_TouchesCycles ==
    /\ triggered' = IsrFlag
    /\ elapsed' = IsrElapsed(elapsed)
    /\ cycles' = 0
    /\ ticksFired' = ticksFired + 1
    /\ UNCHANGED <<pc, sampleVars, derivedVars, cacheVars, buf, stamp, rd,
                   envVars, cyclesStarted, cyclesDone, ticksAtStart, logHist,
                   energyHist, fileHist, dispHist, pollVars>>
ISR ==
    /\ triggered' = IsrFlag
    /\ elapsed' = IsrElapsed(elapsed)
    /\ ticksFired' = ticksFired + 1
    /\ UNCHANGED <<pc, sampleVars, derivedVars, cacheVars, logVars, envVars,
                   cyclesStarted, cyclesDone, ticksAtStart, logHist,
                   energyHist, fileHist, dispHist, pollVars>>

\* the timer fires at any point once setup() has enabled interrupts (sei)
Tick ==
    /\ pc # "setup"
    /\ ticksFired < MaxTicks
    /\ ISR

\* the timer fires only while the loop waits with the flag down: every cycle
\* takes less than one period
PacedTick ==
    /\ pc = "loop"
    /\ ~triggered
    /\ ticksFired < MaxPacedTicks
    /\ ISR

\* the timer of the specification with device faults
FaultTick ==
    /\ pc # "setup"
    /\ ticksFired < MaxFaultTicks
    /\ ISR

(* ------------------------------- loop() -------------------------------- *)
\* a loop() that enters the cycle whether or not the flag is set
LoopCheck_Always ==
    /\ pc = "loop"
    /\ pc' = "ina_on"
    /\ cyclesStarted' = cyclesStarted + 1
    /\ ticksAtStart' = ticksFired
    /\ drawn' = {}
    /\ UNCHANGED <<isrVars, sampleVars, derivedVars, cacheVars, logVars,
                   envVars, ticksFired, cyclesDone, logHist, energyHist,
                   fileHist, failedRows, rendered, pollVars>>

\* a loop() that never looks at the flag
LoopCheck_Ignore ==
    /\ pc = "loop"
    /\ UNCHANGED vars

\* line 87: if (triggered); a false flag makes loop() return at once
LoopCheck ==
    /\ pc = "loop"
    /\ IF triggered
         THEN /\ pc' = "ina_on"
              /\ cyclesStarted' = cyclesStarted + 1
              /\ ticksAtStart' = ticksFired
              /\ drawn' = {}
              /\ UNCHANGED <<isrVars, sampleVars, derivedVars, cacheVars,
                             logVars, envVars, ticksFired, cyclesDone,
                             logHist, energyHist, fileHist, failedRows,
                             rendered, pollVars>>
         ELSE UNCHANGED vars

(* ---------------------------- ina219values() --------------------------- *)
\* an ina219values() that does not wake the sensor
InaPowerOn_Skip ==
    /\ pc = "ina_on"
    /\ pc' = "ina_shunt"
    /\ UNCHANGED <<isrVars, sampleVars, derivedVars, cacheVars, logVars,
                   envVars, histVars, pollVars>>

\* line 165: ina219.powerSave(false)
InaPowerOn ==
    /\ pc = "ina_on"
    /\ sensorActive' = TRUE
    /\ pc' = "ina_shunt"
    /\ UNCHANGED <<isrVars, sampleVars, derivedVars, cacheVars, logVars,
                   fileVars, screen, histVars, pollVars>>

\* line 168
InaReadShunt(S) ==
    /\ pc = "ina_shunt"
    /\ \E v \in S : shuntvoltage' = v
    /\ pc' = "ina_bus"
    /\ UNCHANGED <<isrVars, busvoltage, current_mA, derivedVars, cacheVars,
                   logVars, envVars, histVars, pollVars>>

\* line 169
InaReadBus ==
    /\ pc = "ina_bus"
    /\ \E v \in BusValues : busvoltage' = v
    /\ pc' = "ina_cur"
    /\ UNCHANGED <<isrVars, shuntvoltage, current_mA, derivedVars, cacheVars,
                   logVars, envVars, histVars, pollVars>>

\* line 170
InaReadCurrent(S) ==
    /\ pc = "ina_cur"
    /\ \E v \in S : current_mA' = v
    /\ acquires' = acquires + 1
    /\ pc' = "ina_off"
    /\ UNCHANGED <<isrVars, shuntvoltage, busvoltage, derivedVars, cacheVars,
                   logVars, envVars, tickHist, logHist, lastSampleMs,
                   energyExact, derives, fileHist, dispHist, pollVars>>

\* an ina219values() that leaves the sensor awake
InaPowerOff_Skip ==
    /\ pc = "ina_off"
    /\ pc' = "ina_derive"
    /\ UNCHANGED <<isrVars, sampleVars, derivedVars, cacheVars, logVars,
                   envVars, histVars, pollVars>>

\* line 173: ina219.powerSave(true)
InaPowerOff ==
    /\ pc = "ina_off"
    /\ sensorActive' = FALSE
    /\ pc' = "ina_derive"
    /\ UNCHANGED <<isrVars, sampleVars, derivedVars, cacheVars, logVars,
                   fileVars, screen, histVars, pollVars>>

\* line 176: busvoltage + (shuntvoltage / 1000.0)
LoadVoltage_NoShunt(bus, shunt) == bus
LoadVoltage(bus, shunt) == bus + (shunt \div Milli)

\* line 179: loadvoltage * current_mA (fixed-point product)
Power_Clamped(load, cur) ==
    IF load * cur < 0 THEN 0 ELSE (load * cur) \div Milli
Power(load, cur) == (load * cur) \div Milli

\* line 182: the increment power_mW / 36000.0, in energy units
EnergyStep_Negated(p) == -(p * IntegrationMs)
EnergyStep(p) == p * IntegrationMs

\* lines 176-182
InaDerive ==
    /\ pc = "ina_derive"
    /\ loadvoltage' = LoadVoltage(busvoltage, shuntvoltage)
    /\ power_mW' = Power(loadvoltage', current_mA)
    /\ energy_mWh' = energy_mWh + EnergyStep(power_mW')
    /\ energyExact' = energyExact + power_mW' * (WallMs - lastSampleMs)
    /\ lastSampleMs' = WallMs
    /\ derives' = derives + 1
    /\ pc' = "wf_read"
    /\ UNCHANGED <<isrVars, sampleVars, cacheVars, logVars, envVars,
                   tickHist, logHist, acquires, fileHist, dispHist, pollVars>>

(* --------------------------- text formatting --------------------------- *)
\* Text is a sequence of one-character strings.
DigitChars == <<"0", "1", "2", "3", "4", "5", "6", "7", "8", "9">>
DigitChar(d) == DigitChars[d + 1]

RECURSIVE NatDec(_)
\* the decimal digits of a natural number
NatDec(n) ==
    IF n < 10 THEN <<DigitChar(n)>>
    ELSE NatDec(n \div 10) \o <<DigitChar(n % 10)>>

RECURSIVE Pow10(_)
Pow10(k) == IF k = 0 THEN 1 ELSE 10 * Pow10(k - 1)

RECURSIVE Repeat(_, _)
Repeat(c, k) == IF k <= 0 THEN <<>> ELSE <<c>> \o Repeat(c, k - 1)

\* n in exactly k decimal digits (n < 10^k)
ZeroPadded(n, k) == Repeat("0", k - Len(NatDec(n))) \o NatDec(n)

\* a 32-bit value divided by 10, byte by byte from the top:
\* <<quotient bytes (low first), remainder>>
ULongDivMod10(e) ==
    LET c4 == e[4]
        c3 == (c4 % 10) * ByteRange + e[3]
        c2 == (c3 % 10) * ByteRange + e[2]
        c1 == (c2 % 10) * ByteRange + e[1]
    IN  <<(<<c1 \div 10, c2 \div 10, c3 \div 10, c4 \div 10>>), c1 % 10>>

RECURSIVE ULongDec(_)
\* printf %lu: the unsigned decimal text of a 32-bit value
ULongDec(e) ==
    LET qr == ULongDivMod10(e)
    IN  IF qr[1] = <<0, 0, 0, 0>> THEN <<DigitChar(qr[2])>>
        ELSE ULongDec(qr[1]) \o <<DigitChar(qr[2])>>

\* two's complement negation of a 32-bit value
ULongNeg(e) ==
    ULongAdd(<<ByteRange - 1 - e[1], ByteRange - 1 - e[2],
               ByteRange - 1 - e[3], ByteRange - 1 - e[4]>>, 1)

\* line 198, printf %ld: the 32 bits read as a signed long
LongDec(e) ==
    IF e[4] >= ByteRange \div 2 THEN <<"-">> \o ULongDec(ULongNeg(e))
    ELSE ULongDec(e)

\* avr-libc dtostrf(val, width, prec, s) for a value given in thousandths and
\* prec <= 3: sign, integer digits, '.', prec digits (rounded half up), padded
\* on the left with spaces to width
dtostrf(val, width, prec) ==
    LET mag == IF val < 0 THEN -val ELSE val
        unit == Pow10(3 - prec)
        r == (mag + (unit \div 2)) \div unit
        digits == (IF val < 0 THEN <<"-">> ELSE <<>>)
                      \o NatDec(r \div Pow10(prec))
                      \o (IF prec > 0
                            THEN <<".">> \o ZeroPadded(r % Pow10(prec), prec)
                            ELSE <<>>)
    IN  Repeat(" ", width - Len(digits)) \o digits

\* lines 194-195: the voltage and the current fields of a line
FieldText_Width4(val) == dtostrf(val, 4, LogPrec)
FieldText(val) == dtostrf(val, LogWidth, LogPrec)

\* line 198: sprintf(buf, "%ld,%s,%s\n", elapsed, voltbuf, curbuf)
RowText(e, volt, cur) ==
    LongDec(e) \o <<",">> \o FieldText(volt) \o <<",">> \o FieldText(cur)
        \o <<"\n">>

\* lines 191-198: every string, with its terminator, fits the array it is
\* written to
FitsBuffers(e, volt, cur) ==
    /\ Len(FieldText(volt)) + 1 <= FieldBufSize
    /\ Len(FieldText(cur)) + 1 <= FieldBufSize
    /\ Len(RowText(e, volt, cur)) + 1 <= BufSize

(* ------------------------------ writeFile() ---------------------------- *)
\* line 198: the orders in which the four bytes of elapsed may be loaded
\* (the 8-bit target loads them one at a time; the order is the compiler's)
ReadOrders == {<<1, 2, 3, 4>>, <<4, 3, 2, 1>>}

\* line 198: elapsed is passed to sprintf by value; the main program loads
\* one byte of it per step, with interrupts enabled
WfRead ==
    /\ pc = "wf_read"
    /\ \E o \in (IF rd = <<>> THEN ReadOrders ELSE {rd}) :
          /\ stamp' = [stamp EXCEPT ![Head(o)] = elapsed[Head(o)]]
          /\ rd' = Tail(o)
          /\ pc' = IF Tail(o) = <<>> THEN "wf_format" ELSE "wf_read"
    /\ UNCHANGED <<isrVars, sampleVars, derivedVars, cacheVars, cycles, buf,
                   envVars, histVars, pollVars>>

\* a writeFile() that logs the values cached by the previous cycle
WfFormat_Stale ==
    /\ pc = "wf_format"
    /\ buf' \in IF FitsBuffers(stamp, oldvolt, oldcurr)
                  THEN {RowText(stamp, oldvolt, oldcurr)}
                  ELSE {RowText(stamp, oldvolt, oldcurr), Garbled}
    /\ pc' = "wf_write"
    /\ UNCHANGED <<isrVars, sampleVars, derivedVars, cacheVars, cycles,
                   stamp, rd, envVars, histVars, pollVars>>

\* lines 194-198: format the line from the loaded counter bytes.  A string
\* longer than its array is written past the array's end, which is
\* undefined: the line then comes out as intended or damaged (all damaged
\* texts are one value, Garbled).
WfFormat ==
    /\ pc = "wf_format"
    /\ buf' \in IF FitsBuffers(stamp, loadvoltage, current_mA)
                  THEN {RowText(stamp, loadvoltage, current_mA)}
                  ELSE {RowText(stamp, loadvoltage, current_mA), Garbled}
    /\ pc' = "wf_write"
    /\ UNCHANGED <<isrVars, sampleVars, derivedVars, cacheVars, cycles,
                   stamp, rd, envVars, histVars, pollVars>>

\* line 201: the file's content after measurFile.write(line)
FileAfterWrite_Rewrite(data, line) == <<Header, line>>
FileAfterWrite_Skip(data, line) == data
FileAfterWrite(data, line) == Append(data, line)

\* the earlier writeFile(), which opened and closed the file in every cycle
WfWrite_OpenClose ==
    /\ pc = "wf_write"
    /\ opens' = opens + 1
    /\ fileData' = IF cardPresent THEN FileAfterWrite(fileData, buf)
                   ELSE fileData
    /\ fileOpen' = FALSE
    /\ writesWithCard' = IF cardPresent THEN writesWithCard + 1
                         ELSE writesWithCard
    /\ pc' = "wf_sync"
    /\ UNCHANGED <<isrVars, sampleVars, derivedVars, cacheVars, logVars,
                   sensorActive, syncedLen, cardPresent, screen, tickHist,
                   logHist, energyHist, dispHist, pollVars>>

\* a writeFile() that gives up the cycle when the file is not open
WfWrite_AbortOnFail ==
    /\ pc = "wf_write"
    /\ fileData' = IF fileOpen THEN FileAfterWrite(fileData, buf)
                   ELSE fileData
    /\ writesWithCard' = IF cardPresent THEN writesWithCard + 1
                         ELSE writesWithCard
    /\ pc' = IF fileOpen THEN "wf_sync" ELSE "loop"
    /\ UNCHANGED <<isrVars, sampleVars, derivedVars, cacheVars, logVars,
                   sensorActive, fileOpen, syncedLen, cardPresent, screen,
                   tickHist, logHist, energyHist, opens, dispHist, pollVars>>

\* line 201: measurFile.write(buf); a file that is not open takes no data
WfWrite ==
    /\ pc = "wf_write"
    /\ fileData' = IF fileOpen THEN FileAfterWrite(fileData, buf)
                   ELSE fileData
    /\ writesWithCard' = IF cardPresent THEN writesWithCard + 1
                         ELSE writesWithCard
    /\ pc' = "wf_sync"
    /\ UNCHANGED <<isrVars, sampleVars, derivedVars, cacheVars, logVars,
                   sensorActive, fileOpen, syncedLen, cardPresent, screen,
                   tickHist, logHist, energyHist, opens, dispHist, pollVars>>

\* line 204: if(cycles >= 9)
SyncDue_Late(c) == c > SyncThreshold
SyncDue_Early(c) == c >= SyncThreshold - 1
SyncDue(c) == c >= SyncThreshold

\* lines 204-205: measurFile.sync() puts the cached lines on the medium
WfSync ==
    /\ pc = "wf_sync"
    /\ IF SyncDue(cycles)
         THEN /\ syncedThisWrite' = TRUE
              /\ syncedLen' = IF fileOpen THEN Len(fileData) ELSE syncedLen
              /\ syncs' = IF fileOpen THEN syncs + 1 ELSE syncs
         ELSE /\ syncedThisWrite' = FALSE
              /\ UNCHANGED <<syncedLen, syncs>>
    /\ pc' = "wf_count"
    /\ UNCHANGED <<isrVars, sampleVars, derivedVars, cacheVars, logVars,
                   sensorActive, fileOpen, fileData, cardPresent, screen,
                   tickHist, writesDone, energyHist, fileHist, dispHist,
                   pollVars>>

\* lines 208-209: cycles++; cycles %= 10; on a uint8_t
NextCycles_NoWrap(c) == (c + 1) % ByteRange
NextCycles(c) == ((c + 1) % ByteRange) % SyncEvery

WfCount ==
    /\ pc = "wf_count"
    /\ cycles' = NextCycles(cycles)
    /\ writesDone' = writesDone + 1
    /\ pc' = "disp_volt"
    /\ UNCHANGED <<isrVars, sampleVars, derivedVars, cacheVars, buf, stamp,
                   rd, envVars, tickHist, syncs, syncedThisWrite, energyHist,
                   fileHist,
                   dispHist, pollVars>>

(* ------------------------- display update (loop) ----------------------- *)
\* lines 148-156: displayline(measurment, line_num, line_end); the write to
\* the display succeeds (ok) or fails, which the firmware cannot tell
displayline(measurment, line_num, line_end, ok) ==
    /\ screen' = IF ok THEN [screen EXCEPT ![line_num] = <<measurment, line_end>>]
                 ELSE screen
    /\ drawn' = drawn \cup {line_num}
    /\ failedRows' = IF ok THEN failedRows \ {line_num}
                     ELSE failedRows \cup {line_num}

\* lines 102, 108, 114, 120: the test that guards each displayline call
NeedsRedraw_Always(new, old) == TRUE
NeedsRedraw(new, old) == new # old

\* a voltage block that draws the line and does not update the cache
DispVolt_NoCache(oks) ==
    /\ pc = "disp_volt"
    /\ IF NeedsRedraw(loadvoltage, oldvolt)
         THEN \E ok \in oks : displayline(loadvoltage, 0, " V", ok)
         ELSE UNCHANGED <<screen, drawn, failedRows>>
    /\ rendered' = [rendered EXCEPT ![0] = <<loadvoltage>>]
    /\ pc' = "disp_cur"
    /\ UNCHANGED <<isrVars, sampleVars, derivedVars, cacheVars, logVars,
                   sensorActive, fileVars, tickHist, logHist, energyHist,
                   fileHist, pollVars>>

\* lines 102-105
DispVolt(oks) ==
    /\ pc = "disp_volt"
    /\ IF NeedsRedraw(loadvoltage, oldvolt)
         THEN /\ \E ok \in oks : displayline(loadvoltage, 0, " V", ok)
              /\ oldvolt' = loadvoltage
         ELSE UNCHANGED <<screen, drawn, failedRows, oldvolt>>
    /\ rendered' = [rendered EXCEPT ![0] = <<loadvoltage>>]
    /\ pc' = "disp_cur"
    /\ UNCHANGED <<isrVars, sampleVars, derivedVars, oldcurr, oldpow, oldegy,
                   logVars, sensorActive, fileVars, tickHist, logHist,
                   energyHist, fileHist, pollVars>>

\* lines 108-111
DispCur(oks) ==
    /\ pc = "disp_cur"
    /\ IF NeedsRedraw(current_mA, oldcurr)
         THEN /\ \E ok \in oks : displayline(current_mA, 2, " mA", ok)
              /\ oldcurr' = current_mA
         ELSE UNCHANGED <<screen, drawn, failedRows, oldcurr>>
    /\ rendered' = [rendered EXCEPT ![2] = <<current_mA>>]
    /\ pc' = "disp_pow"
    /\ UNCHANGED <<isrVars, sampleVars, derivedVars, oldvolt, oldpow, oldegy,
                   logVars, sensorActive, fileVars, tickHist, logHist,
                   energyHist, fileHist, pollVars>>

\* lines 114-117
DispPow(oks) ==
    /\ pc = "disp_pow"
    /\ IF NeedsRedraw(power_mW, oldpow)
         THEN /\ \E ok \in oks : displayline(power_mW, 4, " mW", ok)
              /\ oldpow' = power_mW
         ELSE UNCHANGED <<screen, drawn, failedRows, oldpow>>
    /\ rendered' = [rendered EXCEPT ![4] = <<power_mW>>]
    /\ pc' = "disp_egy"
    /\ UNCHANGED <<isrVars, sampleVars, derivedVars, oldvolt, oldcurr, oldegy,
                   logVars, sensorActive, fileVars, tickHist, logHist,
                   energyHist, fileHist, pollVars>>

\* lines 120-123
DispEgy(oks) ==
    /\ pc = "disp_egy"
    /\ IF NeedsRedraw(energy_mWh, oldegy)
         THEN /\ \E ok \in oks : displayline(energy_mWh, 6, " mWh", ok)
              /\ oldegy' = energy_mWh
         ELSE UNCHANGED <<screen, drawn, failedRows, oldegy>>
    /\ rendered' = [rendered EXCEPT ![6] = <<energy_mWh>>]
    /\ pc' = "reset"
    /\ UNCHANGED <<isrVars, sampleVars, derivedVars, oldvolt, oldcurr, oldpow,
                   logVars, sensorActive, fileVars, tickHist, logHist,
                   energyHist, fileHist, pollVars>>

\* line 126: the value stored in the flag at the end of the cycle
FlagAfterCycle_Kept == triggered
FlagAfterCycle == FALSE

\* an end of cycle that also clears the energy accumulator
LoopReset_ClearsEnergy ==
    /\ pc = "reset"
    /\ triggered' = FlagAfterCycle
    /\ cyclesDone' = cyclesDone + 1
    /\ energy_mWh' = 0
    /\ pc' = "loop"
    /\ UNCHANGED <<elapsed, sampleVars, loadvoltage, power_mW, cacheVars,
                   logVars, envVars, ticksFired, cyclesStarted, ticksAtStart,
                   logHist, energyHist, fileHist, dispHist, pollVars>>

\* lines 125-127: reset the flag, leave the if-body
LoopReset ==
    /\ pc = "reset"
    /\ triggered' = FlagAfterCycle
    /\ cyclesDone' = cyclesDone + 1
    /\ pc' = "loop"
    /\ UNCHANGED <<elapsed, sampleVars, derivedVars, cacheVars, logVars,
                   envVars, ticksFired, cyclesStarted, ticksAtStart, logHist,
                   energyHist, fileHist, dispHist, pollVars>>

(* ------------- polled-timer variants: the gate of loop() --------------- *)
\* src/DataLogger/DataLogger.ino line 13: unsigned long interval = 100
Interval == 100
\* steps by which real time (and millis()) advances between two polls
PollDeltas == {1, 33, 100}
\* values of millis() at which the observation starts: after boot, and
\* shortly before the 32-bit counter wraps
PollStarts ==
    {<<0, 0, 0, 0>>, <<156, 255, 255, 255>>, <<220, 255, 255, 255>>,
     <<255, 255, 255, 255>>}

\* 32-bit unsigned subtraction, byte by byte with borrow; the borrow out of
\* the top byte is dropped
ULongSub(a, b) ==
    LET d1 == a[1] - b[1]
        d2 == a[2] - b[2] - (IF d1 < 0 THEN 1 ELSE 0)
        d3 == a[3] - b[3] - (IF d2 < 0 THEN 1 ELSE 0)
        d4 == a[4] - b[4] - (IF d3 < 0 THEN 1 ELSE 0)
    IN  <<(d1 + ByteRange) % ByteRange, (d2 + ByteRange) % ByteRange,
          (d3 + ByteRange) % ByteRange, (d4 + ByteRange) % ByteRange>>

\* e >= n for a 32-bit value e and a number n below 256
ULongAtLeast(e, n) == e[2] # 0 \/ e[3] # 0 \/ e[4] # 0 \/ e[1] >= n

\* a <= b for two 32-bit values
ULongLE(a, b) ==
    \/ a[4] < b[4]
    \/ a[4] = b[4] /\ a[3] < b[3]
    \/ a[4] = b[4] /\ a[3] = b[3] /\ a[2] < b[2]
    \/ a[4] = b[4] /\ a[3] = b[3] /\ a[2] = b[2] /\ a[1] <= b[1]

\* line 33: if (currentMillis - previousMillis >= interval)
PollDue_Absolute(cur, prev) == ULongLE(ULongAdd(prev, Interval), cur)
PollDue(cur, prev) == ULongAtLeast(ULongSub(cur, prev), Interval)

\* real time passes; millis() follows it
PollTime ==
    /\ pc = "poll"
    /\ \E d \in PollDeltas :
          /\ pollClock + d <= MaxPollMs
          /\ millisNow' = ULongAdd(millisNow, d)
          /\ sinceStart' = sinceStart + d
          /\ pollClock' = pollClock + d
    /\ UNCHANGED <<previousMillis, pollCycles, progVars>>

\* lines 31-36: loop() reads millis() and starts a cycle when the interval
\* has passed (the cycle's body is the work modelled above)
PollLoop ==
    /\ pc = "poll"
    /\ IF PollDue(millisNow, previousMillis)
         THEN /\ previousMillis' = millisNow
              /\ sinceStart' = 0
              /\ pollCycles' = pollCycles + 1
              /\ UNCHANGED <<millisNow, pollClock, progVars>>
         ELSE UNCHANGED vars

(* --------------------------- specifications ---------------------------- *)
\* one step of the main program with the given sensor value sets and the
\* given outcomes of a display write
Main(shunts, currents, oks) ==
    \/ Setup
    \/ LoopCheck
    \/ InaPowerOn
    \/ InaReadShunt(shunts)
    \/ InaReadBus
    \/ InaReadCurrent(currents)
    \/ InaPowerOff
    \/ InaDerive
    \/ WfRead
    \/ WfFormat
    \/ WfWrite
    \/ WfSync
    \/ WfCount
    \/ DispVolt(oks)
    \/ DispCur(oks)
    \/ DispPow(oks)
    \/ DispEgy(oks)
    \/ LoopReset

\* the timer may fire at any point of the main program
Next == Tick \/ Main(ShuntValues, CurrentValues, {TRUE})
Spec == Init /\ [][Next]_vars

\* every cycle completes within one timer period
PacedNext == PacedTick \/ Main(PacedShunt, PacedCurrent, {TRUE})
PacedSpec == Init /\ [][PacedNext]_vars

\* device faults: display writes may fail, a card may be inserted late
FaultNext ==
    FaultTick \/ CardInsert \/ Main(FaultShunt, FaultCurrent, BOOLEAN)
FaultSpec == Init /\ [][FaultNext]_vars

\* formatting: writeFile() reads the counter, formats and writes one line
\* from each input
FmtInit ==
    /\ pc = "wf_read"
    /\ triggered = TRUE
    /\ elapsed \in FmtCounters
    /\ shuntvoltage = 0 /\ busvoltage = 0
    /\ current_mA \in FmtCurrents
    /\ loadvoltage \in FmtVolts
    /\ power_mW = 0 /\ energy_mWh = 0
    /\ oldcurr = 0 /\ oldvolt = 0 /\ oldpow = 0 /\ oldegy = 0
    /\ cycles = 0
    /\ buf = Blank
    /\ stamp = <<0, 0, 0, 0>> /\ rd = <<>>
    /\ sensorActive = FALSE
    /\ fileOpen = TRUE
    /\ fileData = <<Header>>
    /\ syncedLen = 1
    /\ cardPresent = TRUE
    /\ screen = [r \in DisplayRows |-> Blank]
    /\ ticksFired = 0 /\ cyclesStarted = 1 /\ cyclesDone = 0
    /\ ticksAtStart = 0 /\ writesDone = 0 /\ syncs = 0
    /\ syncedThisWrite = FALSE
    /\ lastSampleMs = 0 /\ energyExact = 0
    /\ acquires = 1 /\ derives = 1
    /\ opens = 1 /\ writesWithCard = 0
    /\ drawn = {} /\ failedRows = {}
    /\ rendered = [r \in DisplayRows |-> NoValue]
    /\ millisNow = <<0, 0, 0, 0>> /\ previousMillis = <<0, 0, 0, 0>>
    /\ sinceStart = 0 /\ pollClock = 0 /\ pollCycles = 0
FmtNext == WfRead \/ WfFormat \/ WfWrite
FmtSpec == FmtInit /\ [][FmtNext]_vars

\* the timer of the specification with a fair main program
LiveTick ==
    /\ pc # "setup"
    /\ ticksFired < MaxLiveTicks
    /\ ISR

\* the main program keeps running: a step of it that is possible is taken
LiveNext == LiveTick \/ Main(ShuntValues, CurrentValues, {TRUE})
LiveSpec ==
    /\ Init
    /\ [][LiveNext]_vars
    /\ WF_vars(Main(ShuntValues, CurrentValues, {TRUE}))

\* the polled variants: a cycle has just started at one of the start values
PollInit ==
    /\ pc = "poll"
    /\ triggered = FALSE
    /\ elapsed = <<0, 0, 0, 0>>
    /\ shuntvoltage = 0 /\ busvoltage = 0 /\ current_mA = 0
    /\ loadvoltage = 0 /\ power_mW = 0 /\ energy_mWh = 0
    /\ oldcurr = 0 /\ oldvolt = 0 /\ oldpow = 0 /\ oldegy = 0
    /\ cycles = 0
    /\ buf = Blank
    /\ stamp = <<0, 0, 0, 0>> /\ rd = <<>>
    /\ sensorActive = FALSE
    /\ fileOpen = FALSE
    /\ fileData = <<>>
    /\ syncedLen = 0
    /\ cardPresent = FALSE
    /\ screen = [r \in DisplayRows |-> Blank]
    /\ ticksFired = 0 /\ cyclesStarted = 0 /\ cyclesDone = 0
    /\ ticksAtStart = 0 /\ writesDone = 0 /\ syncs = 0
    /\ syncedThisWrite = FALSE
    /\ lastSampleMs = 0 /\ energyExact = 0
    /\ acquires = 0 /\ derives = 0
    /\ opens = 0 /\ writesWithCard = 0
    /\ drawn = {} /\ failedRows = {}
    /\ rendered = [r \in DisplayRows |-> NoValue]
    /\ millisNow \in PollStarts
    /\ previousMillis = millisNow
    /\ sinceStart = 0 /\ pollClock = 0 /\ pollCycles = 0
PollNext == PollTime \/ PollLoop
PollSpec == PollInit /\ [][PollNext]_vars

(* ------------------------------- claims -------------------------------- *)
\* the statements of writeFile()
WfPcs == {"wf_read", "wf_format", "wf_write", "wf_sync", "wf_count"}

\* C1: after any sequence of cycles the energy accumulator equals the running
\* sum of power * dt, dt being the time actually elapsed since the previous
\* sample (both sides in units of 1/3600000000 mWh).
C1_EnergyIsExactSum == energy_mWh = energyExact

\* C2: when two or more ticks have fired since the previous sample, the
\* cycle's energy increment is power times the actual elapsed time, not
\* power times one nominal period.
C2_OverrunUsesActualDt ==
    [][(pc = "ina_derive" /\ pc' = "wf_read"
          /\ WallMs - lastSampleMs >= 2 * TimerPeriodMs)
        => energy_mWh' - energy_mWh = power_mW' * (WallMs - lastSampleMs)]_vars

\* C3: the step that observes the flag true and enters the cycle leaves the
\* flag false before any of the cycle's work starts.
C3_ClearBeforeWork ==
    [][(pc = "loop" /\ pc' = "ina_on") => triggered' = FALSE]_vars

\* C4: if a tick fired while the cycle was executing, the flag is true when
\* the cycle finishes.
C4_TickDuringCycleKept ==
    [][(pc = "reset" /\ pc' = "loop" /\ ticksFired > ticksAtStart)
        => triggered' = TRUE]_vars

\* C5: ticks are not queued: never more cycles started than ticks fired, and
\* every cycle start takes exactly one cycle for all the ticks (at least one)
\* fired since the previous cycle started.
C5_NoCatchUp ==
    /\ [](cyclesStarted <= ticksFired)
    /\ [][cyclesStarted' # cyclesStarted
          => (cyclesStarted' = cyclesStarted + 1
                /\ ticksFired > ticksAtStart)]_vars

\* two ticks fired, one cycle ran for both, and the loop is idle again
C5_Witness ==
    /\ pc = "loop" /\ ~triggered
    /\ ticksFired = 2 /\ ticksAtStart = 2
    /\ cyclesStarted = 1 /\ cyclesDone = 1

\* C6 (as stated): a tick sets the flag and changes no other variable.
C6_IsrOnlySetsFlag ==
    [][ticksFired' # ticksFired
        => (triggered' = TRUE /\ UNCHANGED <<pc, nonFlagVars, envVars>>)]_vars

\* C6 (amended): a tick sets the flag and adds 100 to elapsed, and changes
\* nothing else; no step of the main program writes elapsed.
C6_IsrSetsFlagAndElapsed ==
    /\ [][ticksFired' # ticksFired
          => /\ triggered' = TRUE
             /\ ULongValue(elapsed') = ULongValue(elapsed) + 100
             /\ UNCHANGED <<pc, sampleVars, derivedVars, cacheVars, logVars,
                            envVars>>]_vars
    /\ [][ticksFired' = ticksFired => elapsed' = elapsed]_vars

\* a tick has fired in the middle of a cycle, after a line was counted
C6_Witness ==
    /\ pc = "disp_volt" /\ cycles = 1
    /\ ticksFired = 2 /\ ticksAtStart = 1
    /\ triggered /\ ULongValue(elapsed) = 200

\* C7: when every cycle is shorter than a period, cycles and ticks pair up
\* one to one: idle with the flag down means every tick had its cycle, a
\* raised flag is the one tick not yet served, and a running cycle is the
\* cycle of the latest tick.
C7_OneCyclePerTick ==
    /\ (pc = "loop" /\ ~triggered) => cyclesDone = ticksFired
    /\ (pc = "loop" /\ triggered) => cyclesStarted + 1 = ticksFired
    /\ (pc \notin {"setup", "loop"})
          => (cyclesStarted = ticksFired /\ cyclesDone + 1 = cyclesStarted)
    /\ cyclesDone <= cyclesStarted

\* three ticks, three cycles
C7_Witness ==
    pc = "loop" /\ ~triggered /\ ticksFired = 3 /\ cyclesDone = 3

\* C8: absent failures, after n cycles the number of per-cycle flushes is
\* floor(n/10) (n counts the cycle in progress once its flush decision is
\* taken).
C8_FlushEveryTenth ==
    fileOpen =>
        syncs = (IF pc = "wf_count" THEN writesDone + 1 ELSE writesDone)
                    \div 10

\* the second flush, in the 20th cycle
C8_Witness ==
    fileOpen /\ pc = "wf_count" /\ writesDone = 19 /\ syncs = 2

\* C9: the flush counter stays in 0..9, equals the number of cycles modulo
\* 10, and is 0 once a cycle that flushed has counted itself.
C9_FlushCounter ==
    /\ cycles \in 0..9
    /\ cycles = writesDone % 10
    /\ (syncedThisWrite /\ pc # "wf_count") => cycles = 0

\* the counter wrapped after the 10th cycle's flush
C9_Witness ==
    pc = "disp_volt" /\ syncedThisWrite /\ cycles = 0 /\ writesDone = 10

\* C10: at most 10 appended lines are not yet on the medium, and none right
\* after a flush.
C10_UnflushedBounded ==
    /\ Len(fileData) - syncedLen <= 10
    /\ (fileOpen /\ pc = "wf_count" /\ syncedThisWrite)
          => syncedLen = Len(fileData)

\* ten lines wait for the flush of the 10th cycle
C10_Witness ==
    pc = "wf_sync" /\ Len(fileData) - syncedLen = 10


(* ------------------------------ log file ------------------------------- *)
C11_State ==
    /\ opens = (IF pc = "setup" THEN 0 ELSE 1)
    /\ fileData # <<>> => fileData[1] = Header
    /\ \A i \in 2..Len(fileData) : fileData[i] # Header
C11_Step ==
    pc # "setup" =>
        /\ Len(fileData') >= Len(fileData)
        /\ SubSeq(fileData', 1, Len(fileData)) = fileData
\* C11: measurFile.open (create/truncate) is called exactly once, in setup;
\* the header is the first line of the file and no other line of it; no step
\* after setup shortens the file or changes what it already holds.
C11_CreatedOnce == []C11_State /\ [][C11_Step]_vars
C11_Witness ==
    /\ fileOpen /\ opens = 1 /\ writesDone = 3
    /\ Len(fileData) = 4 /\ fileData[1] = Header

C12_RowCount ==
    fileOpen =>
        Len(fileData) = 1 + writesDone
                          + (IF pc \in {"wf_sync", "wf_count"} THEN 1 ELSE 0)
C12_Step ==
    fileData' # fileData =>
        \/ pc = "setup"
        \/ pc = "wf_write" /\ fileData' = Append(fileData, buf)
\* C12: with the file open, after n writeFile() calls the file holds the
\* header and n rows; the file changes only by setup or by appending the
\* current cycle's row at its end, so earlier content is a prefix of later
\* content and the rows are in cycle order.
C12_AppendOnly == []C12_RowCount /\ [][C12_Step]_vars
C12_Witness ==
    /\ fileOpen /\ pc = "loop" /\ cyclesDone = 3
    /\ Len(fileData) = 4 /\ fileData[4] = buf /\ fileData[3] # buf

Digits == {DigitChars[i] : i \in 1..10}
IsNumber(t) == Len(t) >= 1 /\ \A i \in 1..Len(t) : t[i] \in Digits
\* t is a fixed-point decimal with frac fractional digits in a field of
\* minimum width w: padded with spaces on the left up to w and no further
FixedPointField(t, w, frac) ==
    \E s \in 0..Len(t) :
        LET body == SubSeq(t, s + 1, Len(t))
            mag == IF body # <<>> /\ body[1] = "-" THEN Tail(body) ELSE body
        IN  /\ \A i \in 1..s : t[i] = " "
            /\ Len(mag) >= frac + 2
            /\ mag[Len(mag) - frac] = "."
            /\ IsNumber(SubSeq(mag, 1, Len(mag) - frac - 1))
            /\ IsNumber(SubSeq(mag, Len(mag) - frac + 1, Len(mag)))
            /\ Len(t) >= w
            /\ (s > 0 => Len(t) = w)
IsTimestamp(t) == IsNumber(IF t # <<>> /\ t[1] = "-" THEN Tail(t) ELSE t)
\* row is <timestamp>,<voltage>,<current>\n with fields of minimum width w
RowForm(row, w) ==
    \E i, j \in 1..Len(row) :
        /\ i < j /\ row[i] = "," /\ row[j] = ","
        /\ \A k \in 1..Len(row) : row[k] = "," => k \in {i, j}
        /\ row[Len(row)] = "\n"
        /\ IsTimestamp(SubSeq(row, 1, i - 1))
        /\ FixedPointField(SubSeq(row, i + 1, j - 1), w, 3)
        /\ FixedPointField(SubSeq(row, j + 1, Len(row) - 1), w, 3)
\* C13 as stated: every row written intact has the form
\* <timestamp>,<voltage>,<current>\n with voltage and current as fixed-point
\* decimals of 3 fractional digits and minimum field width 8.
C13_RowFormWidth8 ==
    \A i \in 2..Len(fileData) :
        fileData[i] # Garbled => RowForm(fileData[i], 8)
\* C13 amended: the same form with minimum field width 6, for every row
\* whose text fits writeFile's buffers.
C13_RowFormWidth6 ==
    \A i \in 2..Len(fileData) :
        fileData[i] # Garbled => RowForm(fileData[i], 6)
C13_Witness ==
    /\ Len(fileData) = 2 /\ fileData[2] # Garbled
    /\ loadvoltage = 5020 /\ current_mA = -99999
    /\ elapsed = <<100, 0, 0, 0>>

\* the text of a row up to its first comma
TimestampOf(row) ==
    SubSeq(row, 1,
           (CHOOSE i \in 1..Len(row) :
                row[i] = "," /\ \A k \in 1..(i - 1) : row[k] # ",") - 1)
\* C14: the timestamp field of a row written intact is the unsigned decimal
\* text of the 32-bit counter, for every value of the counter.
C14_TimestampUnsigned ==
    (pc = "wf_sync" /\ fileOpen /\ fileData[Len(fileData)] # Garbled) =>
        TimestampOf(fileData[Len(fileData)]) = ULongDec(elapsed)

\* C15: after setup no step opens or closes the file.
C15_OpenedOnce ==
    [][pc # "setup" => (fileOpen' = fileOpen /\ opens' = opens)]_vars
C15_Witness == fileOpen /\ opens = 1 /\ writesDone = 2 /\ pc = "wf_sync"

(* --------------------------- display helpers --------------------------- *)
\* lines 102-123: the statement that handles each display row, the metric
\* shown on it, its cached value and its unit
DispPc(r) ==
    CASE r = 0 -> "disp_volt" [] r = 2 -> "disp_cur"
      [] r = 4 -> "disp_pow" [] r = 6 -> "disp_egy"
MetricOf(r) ==
    CASE r = 0 -> loadvoltage [] r = 2 -> current_mA
      [] r = 4 -> power_mW [] r = 6 -> energy_mWh
CacheOf(r) ==
    CASE r = 0 -> oldvolt [] r = 2 -> oldcurr
      [] r = 4 -> oldpow [] r = 6 -> oldegy
UnitOf(r) ==
    CASE r = 0 -> " V" [] r = 2 -> " mA" [] r = 4 -> " mW" [] r = 6 -> " mWh"
DispPcs == {DispPc(r) : r \in DisplayRows}

(* ---------------------------- failure handling ------------------------- *)
C16_State ==
    (~fileOpen /\ pc # "setup") =>
        /\ fileData = <<>>
        /\ pc = "loop" =>
              /\ cyclesDone = cyclesStarted
              /\ writesDone = cyclesStarted
              /\ cyclesDone >= 1 =>
                    /\ rendered = [r \in DisplayRows |-> <<MetricOf(r)>>]
                    /\ \A r \in DisplayRows : CacheOf(r) = MetricOf(r)
C16_Step ==
    (~fileOpen /\ pc = "reset" /\ pc' # pc) =>
        (pc' = "loop" /\ triggered' = FALSE)
\* C16: when the file could not be opened, nothing is logged, and every
\* cycle still runs to its end: whenever the loop is idle every started
\* cycle has passed writeFile, rendered its four metrics and finished, and
\* the step that ends a cycle clears the flag and returns to the loop.
C16_LoggingSkipped == []C16_State /\ [][C16_Step]_vars
C16_Witness ==
    /\ ~fileOpen /\ pc = "loop" /\ cyclesDone = 2
    /\ screen[0] = <<loadvoltage, " V">> /\ fileData = <<>>

\* C17: once a write has been made with a card in the reader, the file holds
\* something (a storage failure at startup is made good by a later cycle).
C17_StorageRetried == writesWithCard >= 1 => Len(fileData) >= 1

\* C18: a row whose latest write failed is written again by the next cycle's
\* display step for that row, whether or not the value changed.
C18_FailedWriteRetried ==
    [][\A r \in DisplayRows :
          (pc = DispPc(r) /\ pc' # pc /\ r \in failedRows) => r \in drawn']_vars

(* ----------------------------- display cache --------------------------- *)
C19_Step ==
    /\ \A r \in DisplayRows :
          (pc = DispPc(r) /\ pc' # pc) =>
              /\ r \notin drawn
              /\ drawn' = (IF MetricOf(r) # CacheOf(r) THEN drawn \cup {r}
                           ELSE drawn)
              /\ \A q \in DisplayRows \ {r} : screen'[q] = screen[q]
              /\ MetricOf(r) = CacheOf(r) => screen' = screen
              /\ MetricOf(r) # CacheOf(r) =>
                    screen'[r] = <<MetricOf(r), UnitOf(r)>>
    /\ pc \notin DispPcs =>
          /\ drawn' = drawn \/ drawn' = {}
          /\ screen' = screen \/ pc = "setup"
\* C19: the display step of each metric writes the metric's row if and only
\* if the new value differs from the cached one; it writes no other row, and
\* no other step of a cycle writes to the display.
C19_RedrawIffChanged == [][C19_Step]_vars
C19_Witness ==
    /\ pc = "reset" /\ cyclesStarted = 2
    /\ 2 \in drawn /\ 0 \notin drawn
    /\ screen[2] = <<current_mA, " mA">>

\* C20: a metric's row is redrawn by its display step exactly when the value
\* differs from the one rendered in the previous cycle, or no value has been
\* rendered yet.
C20_FirstRenderRedraws ==
    [][\A r \in DisplayRows :
          (pc = DispPc(r) /\ pc' # pc) =>
              ((r \in drawn') <=> (rendered[r] # <<MetricOf(r)>>))]_vars

(* --------------------------- cycle structure --------------------------- *)
\* lines 85-128, 163-210: the statements of one cycle in program order
CycleOrder ==
    <<"loop", "ina_on", "ina_shunt", "ina_bus", "ina_cur", "ina_off",
      "ina_derive", "wf_read", "wf_format", "wf_write", "wf_sync",
      "wf_count", "disp_volt", "disp_cur", "disp_pow", "disp_egy", "reset">>
PcIndex(p) == CHOOSE i \in 1..Len(CycleOrder) : CycleOrder[i] = p
\* the statements at which the three reads of the cycle are not yet complete
AcquirePcs == {"ina_on", "ina_shunt", "ina_bus", "ina_cur"}
\* the statements at which the cycle has not yet derived its metrics
PreDerivePcs == AcquirePcs \cup {"ina_off", "ina_derive"}
\* the statements after the derive step, up to the end of the cycle
AfterDerivePcs == WfPcs \cup DispPcs \cup {"reset"}
\* the statements at which the sensor has been woken and not yet put to sleep
AwakePcs == {"ina_shunt", "ina_bus", "ina_cur", "ina_off"}
\* every change of statement goes to the next statement of the cycle
InOrder ==
    pc' # pc =>
        \/ pc \in {"setup", "reset"} /\ pc' = "loop"
        \/ pc \notin {"setup", "reset"} /\ PcIndex(pc') = PcIndex(pc) + 1

(* --------------------------- derived metrics --------------------------- *)
\* C21: once a cycle has derived its metrics, load voltage is bus voltage
\* plus shunt voltage / 1000 and power is load voltage times current, of the
\* sample held (bus 5.0 V, shunt 20.0 mV, current 100.0 mA give 5.02 V and
\* 502.0 mW), whatever the earlier cycles were.
C21_DerivedFromSample ==
    pc \in AfterDerivePcs =>
        /\ loadvoltage = busvoltage + (shuntvoltage \div 1000)
        /\ power_mW = (loadvoltage * current_mA) \div 1000
        /\ (busvoltage = 5000 /\ shuntvoltage = 20000 /\ current_mA = 100000)
              => (loadvoltage = 5020 /\ power_mW = 502000)
C21_Witness ==
    /\ pc = "wf_read" /\ derives = 2
    /\ busvoltage = 5000 /\ shuntvoltage = 20000 /\ current_mA = 100000
    /\ loadvoltage = 5020 /\ power_mW = 502000
    /\ energy_mWh = 50200000

\* C22: no step lowers the energy accumulator, except a derive step whose
\* power sample is negative.
C22_EnergyMonotone ==
    [][energy_mWh' >= energy_mWh
          \/ (pc = "ina_derive" /\ power_mW' < 0)]_vars
C22_Witness ==
    /\ pc = "wf_read" /\ derives = 2 /\ power_mW = 502000
    /\ energy_mWh = 100400000

\* C23: the sign is not clamped: a negative current at a positive load
\* voltage gives a negative power, and a negative power lowers the
\* accumulator by power / 36000, below zero if need be.
C23_SignPassedThrough ==
    [][(pc = "ina_derive" /\ pc' # pc) =>
          /\ (current_mA < 0 /\ loadvoltage' > 0) => power_mW' < 0
          /\ power_mW' < 0 =>
                /\ energy_mWh' = energy_mWh + power_mW' * 100
                /\ energy_mWh' < energy_mWh]_vars
C23_Witness == pc = "wf_read" /\ power_mW = -500000 /\ energy_mWh = -50000000

C24_State ==
    derives = cyclesStarted - (IF pc \in PreDerivePcs THEN 1 ELSE 0)
C24_Step ==
    energy_mWh' # energy_mWh =>
        /\ pc = "ina_derive" /\ pc' = "wf_read"
        /\ energy_mWh' = energy_mWh + power_mW' * 100
\* C24: the accumulator changes only in the derive step, by that step's
\* increment (it is never reset), and the derive step runs exactly once in
\* every cycle.
C24_EnergyOwnedByDerive == []C24_State /\ [][C24_Step]_vars
C24_Witness ==
    /\ pc = "reset" /\ derives = 2 /\ cyclesStarted = 2 /\ ticksFired = 4
    /\ energy_mWh = 100400000

(* ------------------------------- sensor -------------------------------- *)
C25_Step ==
    /\ (pc = "ina_on" /\ pc' # pc) => (pc' = "ina_shunt" /\ sensorActive')
    /\ (pc = "ina_shunt" /\ pc' # pc) => (pc' = "ina_bus" /\ sensorActive)
    /\ (pc = "ina_bus" /\ pc' # pc) => (pc' = "ina_cur" /\ sensorActive)
    /\ (pc = "ina_cur" /\ pc' # pc) => (pc' = "ina_off" /\ sensorActive)
    /\ (pc = "ina_off" /\ pc' # pc) => (pc' = "ina_derive" /\ ~sensorActive')
    /\ shuntvoltage' # shuntvoltage => pc = "ina_shunt"
    /\ busvoltage' # busvoltage => pc = "ina_bus"
    /\ current_mA' # current_mA => pc = "ina_cur"
    /\ derivedVars' # derivedVars =>
          (pc = "ina_derive" /\ acquires = cyclesStarted)
\* C25: a cycle wakes the sensor, reads shunt voltage, bus voltage and
\* current in that order with the sensor awake, then puts the sensor to
\* sleep; the derived metrics change only after the three reads.
C25_ReadSequence == [][C25_Step]_vars
C25_Witness ==
    /\ pc = "ina_derive" /\ ~sensorActive /\ acquires = 2
    /\ shuntvoltage = 20000 /\ current_mA = 100000

\* C26 as stated: whenever the main loop is outside the read sequence the
\* sensor is in low-power mode.
C26_AsleepOutsideRead == pc \notin AwakePcs => ~sensorActive
\* C26 amended: the same, once the first read sequence has completed.
C26_AsleepAfterFirstRead ==
    (acquires >= 1 /\ pc \notin AwakePcs) => ~sensorActive
C26_Witness == pc = "loop" /\ acquires = 2 /\ ~sensorActive /\ ~triggered

(* -------------------------------- cycle -------------------------------- *)
C27_State ==
    /\ acquires = cyclesStarted - (IF pc \in AcquirePcs THEN 1 ELSE 0)
    /\ derives = cyclesStarted - (IF pc \in PreDerivePcs THEN 1 ELSE 0)
    /\ cyclesDone = cyclesStarted - (IF pc \in {"setup", "loop"} THEN 0 ELSE 1)
    /\ cyclesStarted <= ticksFired
C27_Step ==
    (pc = "loop" /\ pc' # pc) =>
        (triggered /\ pc' = "ina_on" /\ cyclesDone = cyclesStarted)
\* C27: every cycle entered on a set flag makes exactly one acquisition and
\* one derive step; a cycle is entered only on a set flag and only when
\* every earlier cycle has finished.
C27_OnePassPerTrigger == []C27_State /\ [][C27_Step]_vars
C27_Witness ==
    /\ pc = "loop" /\ acquires = 3 /\ derives = 3 /\ ticksFired = 4
    /\ cyclesDone = 3

\* the three fields of a row: the texts between the commas
RowFields(row) ==
    LET commas == {k \in 1..Len(row) : row[k] = ","}
        i == CHOOSE k \in commas : \A m \in commas : k <= m
        j == CHOOSE k \in commas : \A m \in commas : k >= m
    IN  <<SubSeq(row, 1, i - 1), SubSeq(row, i + 1, j - 1),
          SubSeq(row, j + 1, Len(row) - 1)>>
C28_State ==
    /\ pc \in (AfterDerivePcs \cup {"ina_off", "ina_derive"}) =>
          acquires = cyclesStarted
    /\ pc \in AfterDerivePcs =>
          /\ derives = cyclesStarted
          /\ loadvoltage = busvoltage + (shuntvoltage \div 1000)
    /\ pc \in {"disp_cur", "disp_pow", "disp_egy", "reset"} =>
          rendered[0] = <<loadvoltage>>
    /\ pc = "reset" => rendered = [r \in DisplayRows |-> <<MetricOf(r)>>]
C28_Step ==
    /\ InOrder
    /\ (pc = "wf_format" /\ pc' # pc /\ buf' # Garbled) =>
          /\ RowFields(buf')[2] = FieldText(loadvoltage)
          /\ RowFields(buf')[3] = FieldText(current_mA)
    /\ (pc = "wf_write" /\ pc' # pc /\ fileOpen) =>
          fileData'[Len(fileData')] = buf
    /\ \A r \in DisplayRows :
          (pc = DispPc(r) /\ r \in drawn') =>
              screen'[r] = <<MetricOf(r), UnitOf(r)>>
\* C28: the statements of a cycle run in the order acquire, derive, persist,
\* render; the row written and the values rendered are the load voltage and
\* current (and power, energy) derived from the sample read in this cycle.
C28_OnePassInOrder == []C28_State /\ [][C28_Step]_vars
C28_Witness ==
    /\ pc = "reset" /\ cyclesStarted = 2 /\ fileOpen
    /\ buf = RowText(<<200, 0, 0, 0>>, 5020, 100000)
    /\ fileData[3] = buf /\ oldvolt = 5020 /\ 2 \in drawn

(* ------------------------------ timestamps ----------------------------- *)
DigitOf(c) == CHOOSE d \in 0..9 : DigitChar(d) = c
RECURSIVE TextValue(_)
\* the number written by a text of decimal digits
TextValue(t) ==
    IF t = <<>> THEN 0
    ELSE 10 * TextValue(SubSeq(t, 1, Len(t) - 1)) + DigitOf(t[Len(t)])
\* the rows of the file that were written intact, in file order
IntactRows == {i \in 2..Len(fileData) : fileData[i] # Garbled}

\* C29: the timestamp of the row about to be written is a value the counter
\* held during this cycle: 100 times a tick count between the cycle's start
\* and now.
C29_TimestampWasHeld ==
    (pc = "wf_write" /\ buf # Garbled) =>
        \E k \in ticksAtStart..ticksFired :
            TextValue(TimestampOf(buf)) = 100 * k

\* C30: the timestamps of the rows of the file are strictly increasing.
C30_TimestampsIncrease ==
    \A i, j \in IntactRows :
        i < j => TextValue(TimestampOf(fileData[i]))
                    < TextValue(TimestampOf(fileData[j]))

(* ------------------------------- buffers ------------------------------- *)
\* C31: the voltage and current strings with their terminator fit 8 bytes
\* and the row with its terminator fits 32 bytes, for every value formatted.
C31_TextFitsBuffers ==
    pc = "wf_format" =>
        /\ Len(dtostrf(loadvoltage, 6, 3)) + 1 <= 8
        /\ Len(dtostrf(current_mA, 6, 3)) + 1 <= 8
        /\ Len(RowText(stamp, loadvoltage, current_mA)) + 1 <= 32

C32_State == pc = "reset" => \A r \in DisplayRows : CacheOf(r) = MetricOf(r)
C32_Step ==
    \A r \in DisplayRows :
        CacheOf(r)' # CacheOf(r) =>
            /\ pc = DispPc(r)
            /\ r \in drawn'
            /\ screen'[r] = <<CacheOf(r)', UnitOf(r)>>
\* C32: when the flag is about to be reset each cached value equals its
\* metric; a cached value changes only in the display step that redraws its
\* line, to the value drawn.
C32_CacheTracksDisplay == []C32_State /\ [][C32_Step]_vars
C32_Witness ==
    /\ pc = "reset" /\ cyclesStarted = 3
    /\ oldvolt = 5020 /\ oldcurr = 100000 /\ oldpow = 502000
    /\ drawn = {6}

(* ------------------------------ progress ------------------------------- *)
\* C33: a set flag seen by the idle loop leads to the end of a cycle, and a
\* set flag always leads to a cleared flag.
C33_TickLeadsToCycle ==
    /\ (pc = "loop" /\ triggered) ~> (pc = "reset")
    /\ triggered ~> ~triggered
C33_Witness ==
    pc = "loop" /\ triggered /\ cyclesDone = 1 /\ ticksFired = 2

(* ---------------------------- polled variants -------------------------- *)
C34_State == (sinceStart >= 100) <=> PollDue(millisNow, previousMillis)
C34_Step ==
    pollCycles' # pollCycles =>
        (sinceStart >= 100 /\ pollCycles' = pollCycles + 1
           /\ previousMillis' = millisNow)
\* C34: the gate of the polled loop is open exactly when 100 ms or more of
\* real time have passed since the previous cycle started, so a cycle starts
\* at the first poll after 100 ms and never earlier, also when millis() has
\* wrapped in between.
C34_PolledGate == []C34_State /\ [][C34_Step]_vars
C34_Witness ==
    /\ pollCycles = 1 /\ pollClock = 100 /\ sinceStart = 0
    /\ previousMillis = <<99, 0, 0, 0>>
====
